---------------------------- MODULE Spec2Model ----------------------------
(***************************************************************************)
(* Model of download_images.py: the image resolver                         *)
(* (get_image_from_medium), the image fetcher (download_image) and the     *)
(* batch driver (main).                                                    *)
(*                                                                         *)
(* Strings are sequences of tokens.  A token is an atomic piece of text:   *)
(* the separators "/", "?" and "\n" are one character each, "resize:" is   *)
(* the literal the second regular expression looks for, the size markers   *)
(* and the CDN host names are the substrings the code searches for, and    *)
(* every other token is text that contains none of these.                  *)
(***************************************************************************)
EXTENDS Integers, Sequences, FiniteSets, TLC

VARIABLES
    blogs,        \* the entry list read from blogs.json (fixed for a behaviour)
    files,        \* names of the files that exist in the assets folder
    pc,           \* position of main(): start, loop, resolved, pause, done, aborted
    i,            \* the enumerate() index of the entry under examination
    downloaded,   \* counter of main()
    skipped,      \* counter of main()
    failed,       \* counter of main()
    image_url,    \* the value get_image_from_medium returned for this entry
    page,         \* the document the last page request received
    net,          \* the requests.get calls of this run, in order
    log,          \* the outcome lines printed for the entries of this run
    sleeps,       \* seconds spent in time.sleep during this run
    summaries,    \* the summary blocks printed so far, one per finished run
    files0        \* the files that existed when this run started

vars == <<blogs, files, pc, i, downloaded, skipped, failed, image_url, page,
          net, log, sleeps, summaries, files0>>

----------------------------------------------------------------------------
(* Bounds of the model *)

MaxBlogs == 3
MaxImgs == 2
MaxRuns == 2

----------------------------------------------------------------------------
(* Configuration *)

ASSETS_FOLDER == <<"assets">>
DELAY_BETWEEN_REQUESTS == 1

----------------------------------------------------------------------------
(* Python values *)

\* Python's None, told apart from every string (str(None) is <<"None">>).
None == <<"#None">>

\* Truth value of an optional string: None and '' are false.
Truthy(x) == x # None /\ x # <<>>

Range(s) == {s[k] : k \in 1..Len(s)}

\* needle in s, for a needle that is one token
Contains(s, tok) == tok \in Range(s)

----------------------------------------------------------------------------
(* The two substitutions applied to every candidate *)

\* Where '\?.*$' matches at p: '.' matches no line break and '$' matches at the
\* end of the string or just before a line break that ends the string.
QueryMatchAt(s, p) ==
    /\ s[p] = "?"
    /\ \A k \in (p + 1)..Len(s) : s[k] = "\n" => k = Len(s)

\* re.sub(r'\?.*$', '', s): the leftmost match is removed; what follows it can
\* only be the final line break, which holds no further match.
StripQuery(s) ==
    LET hits == {p \in 1..Len(s) : QueryMatchAt(s, p)}
    IN  IF hits = {} THEN s
        ELSE LET p == CHOOSE q \in hits : \A r \in hits : q <= r
             IN  SubSeq(s, 1, p - 1)
                    \o (IF s[Len(s)] = "\n" THEN <<"\n">> ELSE <<>>)

\* Where '/resize:[^/]+' matches at p.
ResizeMatchAt(s, p) ==
    /\ p + 2 <= Len(s)
    /\ s[p] = "/"
    /\ s[p + 1] = "resize:"
    /\ s[p + 2] # "/"

\* The last position of the greedy [^/]+ of a match at p.
ResizeMatchEnd(s, p) ==
    CHOOSE q \in (p + 2)..Len(s) :
        /\ \A k \in (p + 2)..q : s[k] # "/"
        /\ (q = Len(s) \/ s[q + 1] = "/")

RECURSIVE StripResizeFrom(_, _)
StripResizeFrom(s, p) ==
    IF p > Len(s) THEN <<>>
    ELSE IF ResizeMatchAt(s, p)
         THEN StripResizeFrom(s, ResizeMatchEnd(s, p) + 1)
         ELSE <<s[p]>> \o StripResizeFrom(s, p + 1)

\* re.sub(r'/resize:[^/]+', '', s): every non-overlapping match, left to right.
StripResize(s) == StripResizeFrom(s, 1)

\* The pair of substitutions, in the order the code applies them.
Normalize(s) == StripResize(StripQuery(s))

----------------------------------------------------------------------------
(* get_image_from_medium *)

\* 'miro.medium.com' in src or 'cdn-images' in src
IsMediumCdn(src) == Contains(src, "miro.medium.com") \/ Contains(src, "cdn-images")

LargeSizes == {"828", "1400", "2000", "4800"}

\* any(size in img_url for size in ['828', '1400', '2000', '4800'])
HasLargeSize(img_url) == \E size \in LargeSizes : Contains(img_url, size)

\* str(x) of the value of the 'image' key, after the nested 'url' lookup.
\*   str      a JSON string
\*   urlobj   a JSON object with a 'url' key holding a string
\*   obj      a JSON object without a 'url' key
\*   list     a JSON array of one string
\*   null     JSON null
ImageStr(ld) ==
    CASE ld.kind = "str"    -> ld.val
      [] ld.kind = "urlobj" -> ld.val
      [] ld.kind = "obj"    -> <<"{'@type': 'ImageObject'}">>
      [] ld.kind = "list"   -> <<"['">> \o ld.val \o <<"']">>
      [] ld.kind = "null"   -> <<"None">>

\* Whether the first ld+json script parses to a dict that has an 'image' key.
\*   absent   no such script
\*   badjson  json.loads raises (swallowed by the bare except)
\*   notdict  the document is not a JSON object
\*   noimage  a JSON object without an 'image' key
HasImageKey(ld) == ld.kind \notin {"absent", "badjson", "notdict", "noimage"}

\* The positions of the img tags whose src names the CDN.
CdnImgs(imgs) == {k \in 1..Len(imgs) : IsMediumCdn(imgs[k])}

Min(S) == CHOOSE x \in S : \A y \in S : x <= y

\* Method 4: the first CDN image whose normalized URL holds a size marker.
LargeImgs(imgs) == {k \in CdnImgs(imgs) : HasLargeSize(Normalize(imgs[k]))}

\* A page is what requests.get and BeautifulSoup deliver:
\*   status  "ok", or "error" when the request or raise_for_status raises
\*   og      content of the first og:image meta tag; None when there is no
\*           such tag or it has no content attribute
\*   tw      the same for the first twitter:image meta tag
\*   ld      the first application/ld+json script (see HasImageKey, ImageStr)
\*   imgs    the src attributes of the img tags that have one, in page order
get_image_from_medium(p) ==
    IF p.status # "ok" THEN None
    ELSE IF Truthy(p.og) THEN Normalize(p.og)
    ELSE IF Truthy(p.tw) THEN Normalize(p.tw)
    ELSE IF HasImageKey(p.ld) THEN Normalize(ImageStr(p.ld))
    ELSE IF LargeImgs(p.imgs) # {} THEN Normalize(p.imgs[Min(LargeImgs(p.imgs))])
    ELSE IF CdnImgs(p.imgs) # {} THEN Normalize(p.imgs[Min(CdnImgs(p.imgs))])
    ELSE None


----------------------------------------------------------------------------
(* Paths and the assets folder *)

\* os.path.basename: what follows the last "/" (the whole path without one).
basename(path) ==
    LET slashes == {k \in 1..Len(path) : path[k] = "/"}
    IN  IF slashes = {} THEN path
        ELSE SubSeq(path, (CHOOSE k \in slashes : \A m \in slashes : m <= k) + 1,
                    Len(path))

\* os.path.join(a, b) for a relative b and an a that does not end in "/".
join(a, b) == a \o <<"/">> \o b

\* save_path of an entry
SavePath(blog) == join(ASSETS_FOLDER, basename(blog.thumbnail))

\* Variant: the existence test is given the bare file name, which is looked up
\* in the working directory and not in the assets folder.
os_path_exists_Cwd(save_path) == basename(save_path) \in files

\* os.path.exists(save_path), for a save_path that names a file of the folder.
os_path_exists(save_path) == save_path \in files

\* not url or not thumbnail
MissingField(blog) == ~Truthy(blog.url) \/ ~Truthy(blog.thumbnail)

----------------------------------------------------------------------------
(* The inputs of the model *)

PostUrl == <<"medium.com", "/", "post">>

Thumbnails ==
    { <<>>,
      <<"assets", "/", "a.png">>,
      <<"b.png">> }

\* An entry with a url and any thumbnail (one of them none), or without a url.
Entries ==
    [url : {PostUrl}, thumbnail : Thumbnails]
    \cup [url : {<<>>}, thumbnail : {<<"assets", "/", "a.png">>}]

SeqsUpTo(S, n) == UNION {[1..m -> S] : m \in 0..n}

\* The assets folder before the first run: empty, or holding a.png.
InitialFiles == SUBSET {join(ASSETS_FOLDER, <<"a.png">>)}

OgContents ==
    { None,
      <<>>,
      <<"miro.medium.com", "/", "og.png">>,
      <<"miro.medium.com", "/", "resize:", "fit:", "1200", "/", "og.png", "?", "q=1">>,
      <<"miro.medium.com", "/", "og.png", "?", "q=1", "\n", "r=2">>,
      <<"?", "q=1">> }

TwContents ==
    { None,
      <<>>,
      <<"miro.medium.com", "/", "tw.png">>,
      <<"miro.medium.com", "/", "resize:", "fit:", "1200", "/", "tw.png", "?", "q=1">> }

NoLd == [kind |-> "absent", val |-> <<>>]

LdScripts ==
    [kind : {"absent", "badjson", "notdict", "noimage", "obj", "null"}, val : {<<>>}]
    \cup [kind : {"str", "urlobj", "list"},
          val : { <<"miro.medium.com", "/", "ld.png">>,
                  <<"miro.medium.com", "/", "ld.png", "?", "q=1">> }]

ImgSrcs ==
    { <<>>,
      <<"example.com", "/", "1400", "/", "ad.png">>,
      <<"miro.medium.com", "/", "v2", "/", "a.png">>,
      <<"miro.medium.com", "/", "v2", "/", "resize:", "fit:", "100", "/", "b.png">>,
      <<"miro.medium.com", "/", "v2", "/", "resize:", "fit:", "1400", "/", "c.png">>,
      <<"miro.medium.com", "/", "max", "/", "1400", "/", "d.png">>,
      <<"miro.medium.com", "/", "v2", "/", "e.png", "?", "w=", "1400">>,
      <<"cdn-images", "/", "max", "/", "2000", "/", "f.png">> }

Pages ==
    [status : {"ok"}, og : OgContents, tw : TwContents, ld : LdScripts,
     imgs : SeqsUpTo(ImgSrcs, MaxImgs)]

NoPage == [status |-> "error", og |-> None, tw |-> None, ld |-> NoLd, imgs |-> <<>>]

\* The documents the driver's page requests receive.
DriverPages ==
    { NoPage,
      [NoPage EXCEPT !.status = "ok"],
      [NoPage EXCEPT !.status = "ok", !.og = <<"?", "q=1">>],
      [NoPage EXCEPT !.status = "ok",
                     !.og = <<"miro.medium.com", "/", "og.png", "?", "q=1">>] }

\* How one call of download_image ends.
\*   request_error  requests.get or raise_for_status raises
\*   open_error     os.makedirs or open raises
\*   write_error    iter_content or f.write raises after open created the file
\*   ok             every chunk is written
FetchOutcomes == {"request_error", "open_error", "write_error", "ok"}

----------------------------------------------------------------------------
(* download_image *)

\* The value download_image returns.
download_image_returns(outcome) == outcome = "ok"

\* Variant: the file is opened under its bare name, outside the assets folder.
download_image_files_Cwd(outcome, save_path) ==
    IF outcome \in {"write_error", "ok"}
    THEN files \cup {basename(save_path)} ELSE files

\* The files after download_image: open(save_path, 'wb') creates the file, and
\* the except clause does not remove it.
download_image_files(outcome, save_path) ==
    IF outcome \in {"write_error", "ok"} THEN files \cup {save_path} ELSE files

----------------------------------------------------------------------------
(* main *)

Init ==
    /\ blogs \in SeqsUpTo(Entries, MaxBlogs)
    /\ files \in InitialFiles
    /\ pc = "start"
    /\ i = 0
    /\ downloaded = 0
    /\ skipped = 0
    /\ failed = 0
    /\ image_url = None
    /\ page = NoPage
    /\ net = <<>>
    /\ log = <<>>
    /\ sleeps = 0
    /\ summaries = <<>>
    /\ files0 = files

\* json.load succeeds: the counters are zeroed and the loop starts.
Load ==
    /\ pc = "start"
    /\ pc' = "loop"
    /\ i' = 1
    /\ downloaded' = 0
    /\ skipped' = 0
    /\ failed' = 0
    /\ image_url' = None
    /\ net' = <<>>
    /\ log' = <<>>
    /\ sleeps' = 0
    /\ files0' = files
    /\ UNCHANGED <<blogs, files, page, summaries>>

\* open or json.load raises: main returns without a summary.
LoadError ==
    /\ pc = "start"
    /\ pc' = "aborted"
    /\ UNCHANGED <<blogs, files, i, downloaded, skipped, failed, image_url, page,
                   net, log, sleeps, summaries, files0>>

\* if not url or not thumbnail: skipped += 1; continue
SkipMissing ==
    /\ pc = "loop"
    /\ i <= Len(blogs)
    /\ MissingField(blogs[i])
    /\ skipped' = skipped + 1
    /\ log' = Append(log, "missing")
    /\ i' = i + 1
    /\ UNCHANGED <<blogs, files, pc, downloaded, failed, image_url, page, net,
                   sleeps, summaries, files0>>

\* if os.path.exists(save_path): skipped += 1; continue
SkipExists ==
    /\ pc = "loop"
    /\ i <= Len(blogs)
    /\ ~MissingField(blogs[i])
    /\ os_path_exists(SavePath(blogs[i]))
    /\ skipped' = skipped + 1
    /\ log' = Append(log, "exists")
    /\ i' = i + 1
    /\ UNCHANGED <<blogs, files, pc, downloaded, failed, image_url, page, net,
                   sleeps, summaries, files0>>

\* image_url = get_image_from_medium(url)
Resolve ==
    /\ pc = "loop"
    /\ i <= Len(blogs)
    /\ ~MissingField(blogs[i])
    /\ ~os_path_exists(SavePath(blogs[i]))
    /\ \E p \in DriverPages :
          /\ page' = p
          /\ image_url' = get_image_from_medium(p)
    /\ net' = Append(net, [kind |-> "page", entry |-> i])
    /\ pc' = "resolved"
    /\ UNCHANGED <<blogs, files, i, downloaded, skipped, failed, log, sleeps,
                   summaries, files0>>

\* Variant: the branch forgets failed += 1.
NotFound_NoCount ==
    /\ pc = "resolved"
    /\ ~Truthy(image_url)
    /\ log' = Append(log, "not_found")
    /\ i' = i + 1
    /\ pc' = "loop"
    /\ UNCHANGED <<blogs, files, downloaded, skipped, failed, image_url, page, net,
                   sleeps, summaries, files0>>

\* if not image_url: failed += 1; continue
NotFound ==
    /\ pc = "resolved"
    /\ ~Truthy(image_url)
    /\ failed' = failed + 1
    /\ log' = Append(log, "not_found")
    /\ i' = i + 1
    /\ pc' = "loop"
    /\ UNCHANGED <<blogs, files, downloaded, skipped, image_url, page, net, sleeps,
                   summaries, files0>>

\* Variant: download_image is called without the test of image_url before it.
Download_NoCheck ==
    /\ pc = "resolved"
    /\ \E outcome \in FetchOutcomes :
          /\ files' = download_image_files(outcome, SavePath(blogs[i]))
          /\ IF download_image_returns(outcome)
             THEN /\ downloaded' = downloaded + 1
                  /\ failed' = failed
                  /\ log' = Append(log, "downloaded")
             ELSE /\ failed' = failed + 1
                  /\ downloaded' = downloaded
                  /\ log' = Append(log, "download_failed")
    /\ net' = Append(net, [kind |-> "image", entry |-> i])
    /\ pc' = "pause"
    /\ UNCHANGED <<blogs, i, skipped, image_url, page, sleeps, summaries, files0>>

\* Variant: download_image has no try/except, so an error of the request or of
\* the file system ends main().
Download_Raises ==
    /\ pc = "resolved"
    /\ Truthy(image_url)
    /\ \E outcome \in FetchOutcomes :
          /\ files' = download_image_files(outcome, SavePath(blogs[i]))
          /\ IF download_image_returns(outcome)
             THEN /\ downloaded' = downloaded + 1
                  /\ log' = Append(log, "downloaded")
                  /\ pc' = "pause"
             ELSE /\ downloaded' = downloaded
                  /\ log' = log
                  /\ pc' = "aborted"
    /\ failed' = failed
    /\ net' = Append(net, [kind |-> "image", entry |-> i])
    /\ UNCHANGED <<blogs, i, skipped, image_url, page, sleeps, summaries, files0>>

\* if download_image(image_url, save_path): downloaded += 1 else: failed += 1
Download ==
    /\ pc = "resolved"
    /\ Truthy(image_url)
    /\ \E outcome \in FetchOutcomes :
          /\ files' = download_image_files(outcome, SavePath(blogs[i]))
          /\ IF download_image_returns(outcome)
             THEN /\ downloaded' = downloaded + 1
                  /\ failed' = failed
                  /\ log' = Append(log, "downloaded")
             ELSE /\ failed' = failed + 1
                  /\ downloaded' = downloaded
                  /\ log' = Append(log, "download_failed")
    /\ net' = Append(net, [kind |-> "image", entry |-> i])
    /\ pc' = "pause"
    /\ UNCHANGED <<blogs, i, skipped, image_url, page, sleeps, summaries, files0>>

\* if i < len(blogs): time.sleep(DELAY_BETWEEN_REQUESTS)
Pause ==
    /\ pc = "pause"
    /\ i < Len(blogs)
    /\ sleeps' = sleeps + DELAY_BETWEEN_REQUESTS
    /\ i' = i + 1
    /\ pc' = "loop"
    /\ UNCHANGED <<blogs, files, downloaded, skipped, failed, image_url, page, net,
                   log, summaries, files0>>

\* the last entry: no sleep
NoPause ==
    /\ pc = "pause"
    /\ ~(i < Len(blogs))
    /\ i' = i + 1
    /\ pc' = "loop"
    /\ UNCHANGED <<blogs, files, downloaded, skipped, failed, image_url, page, net,
                   log, sleeps, summaries, files0>>

\* The summary block printed after the loop.
Summary ==
    /\ pc = "loop"
    /\ i > Len(blogs)
    /\ summaries' = Append(summaries,
                           [downloaded |-> downloaded, skipped |-> skipped,
                            failed |-> failed, total |-> Len(blogs)])
    /\ pc' = "done"
    /\ UNCHANGED <<blogs, files, i, downloaded, skipped, failed, image_url, page,
                   net, log, sleeps, files0>>

\* The script is run again over the same blogs.json and the files it left.
Rerun ==
    /\ pc = "done"
    /\ Len(summaries) < MaxRuns
    /\ pc' = "start"
    /\ UNCHANGED <<blogs, files, i, downloaded, skipped, failed, image_url, page,
                   net, log, sleeps, summaries, files0>>

Next ==
    \/ Load
    \/ LoadError
    \/ SkipMissing
    \/ SkipExists
    \/ Resolve
    \/ NotFound
    \/ Download
    \/ Pause
    \/ NoPause
    \/ Summary
    \/ Rerun

Spec == Init /\ [][Next]_vars

\* Every call of the run returns (the requests carry a timeout) and the
\* interpreter keeps executing the single thread.
FairSpec == Spec /\ WF_vars(Next)

----------------------------------------------------------------------------
(* The resolver on its own: one call of get_image_from_medium on any page *)

InitResolver ==
    /\ page \in Pages \cup {NoPage}
    /\ image_url = None
    /\ pc = "call"
    /\ blogs = <<>>
    /\ files = {}
    /\ i = 0
    /\ downloaded = 0
    /\ skipped = 0
    /\ failed = 0
    /\ net = <<>>
    /\ log = <<>>
    /\ sleeps = 0
    /\ summaries = <<>>
    /\ files0 = {}

ResolverCall ==
    /\ pc = "call"
    /\ image_url' = get_image_from_medium(page)
    /\ pc' = "returned"
    /\ UNCHANGED <<blogs, files, i, downloaded, skipped, failed, page, net, log,
                   sleeps, summaries, files0>>

NextResolver == ResolverCall

SpecResolver == InitResolver /\ [][NextResolver]_vars

----------------------------------------------------------------------------
(* Properties of the batch driver *)

Count(kind) == Cardinality({k \in 1..Len(log) : log[k] = kind})

LastSummary == summaries[Len(summaries)]

InRun == pc \in {"loop", "resolved", "pause", "done"}

\* C1: every finished entry has incremented exactly one of downloaded, skipped
\* and failed, once: with k entries finished the three counters sum to k, each
\* counter equals the number of entries that ended that way, and the summary
\* reports these counters with total = the number of entries of the list.
C1_CountersSum ==
    /\ pc \in {"loop", "resolved", "done"} => downloaded + skipped + failed = i - 1
    /\ pc = "pause" => downloaded + skipped + failed = i
    /\ InRun =>
          /\ Len(log) = downloaded + skipped + failed
          /\ downloaded = Count("downloaded")
          /\ skipped = Count("missing") + Count("exists")
          /\ failed = Count("not_found") + Count("download_failed")
    /\ pc = "done" =>
          /\ LastSummary.total = Len(blogs)
          /\ LastSummary.downloaded + LastSummary.skipped + LastSummary.failed
                = LastSummary.total
          /\ LastSummary.downloaded = downloaded
          /\ LastSummary.skipped = skipped
          /\ LastSummary.failed = failed

\* A finished run with entries that ended in each of the three ways.
C1_Witness ==
    /\ pc = "done"
    /\ downloaded = 1
    /\ skipped = 1
    /\ failed = 1

\* The destination file of the entry under examination is in the assets folder.
DestinationExists ==
    (ASSETS_FOLDER \o <<"/">> \o basename(blogs[i].thumbnail)) \in files

\* C2: when the entry under examination lacks url or thumbnail, or its
\* destination file exists, the step that disposes of it makes no request, adds
\* one to skipped and leaves downloaded and failed as they are.
C2_SkipNoNetwork ==
    [][ ( /\ pc = "loop"
          /\ i <= Len(blogs)
          /\ \/ blogs[i].url = <<>>
             \/ blogs[i].thumbnail = <<>>
             \/ DestinationExists )
        => ( /\ net' = net
             /\ skipped' = skipped + 1
             /\ downloaded' = downloaded
             /\ failed' = failed
             /\ i' = i + 1 ) ]_vars

\* A finished run that skipped one entry for a missing field and one for an
\* existing file, without any request.
C2_Witness ==
    /\ pc = "done"
    /\ Count("missing") = 1
    /\ Count("exists") = 1
    /\ net = <<>>

\* The summary of the run before the current one (0 when there is none).
PreviousRun == IF pc = "done" THEN Len(summaries) - 1 ELSE Len(summaries)

\* C3: in a run that follows a run which ended with failed = 0, no request is
\* made, no file is written, nothing is downloaded, and the run ends with
\* skipped = total.
C3_RerunIdempotent ==
    ( /\ InRun
      /\ PreviousRun >= 1
      /\ summaries[PreviousRun].failed = 0 )
    => /\ net = <<>>
       /\ downloaded = 0
       /\ failed = 0
       /\ files = files0
       /\ pc = "done" =>
             /\ skipped = Len(blogs)
             /\ LastSummary.skipped = LastSummary.total
             /\ LastSummary.downloaded = 0

\* A second run has finished after a first run that downloaded two files and
\* failed nowhere.
C3_Witness ==
    /\ pc = "done"
    /\ Len(summaries) = 2
    /\ summaries[1].failed = 0
    /\ summaries[1].downloaded = 2

\* C4 (as claimed): the step that finishes an entry which is not the last one
\* sleeps DELAY_BETWEEN_REQUESTS, whatever the entry's outcome, and the step
\* that finishes the last entry does not sleep.
C4_PauseAfterEveryEntry ==
    [][ (pc # "start" /\ i' = i + 1)
        => IF i < Len(blogs)
           THEN sleeps' = sleeps + DELAY_BETWEEN_REQUESTS
           ELSE sleeps' = sleeps ]_vars

PageCall == net' = Append(net, [kind |-> "page", entry |-> i])

ImageCall == net' = Append(net, [kind |-> "image", entry |-> i])

\* C8: a page request is made only for the entry under examination after both
\* checks passed; an image request is made only after the page request of the
\* same entry returned a non-empty image URL; an entry whose resolution
\* returned nothing is counted failed without an image request; and an entry is
\* counted downloaded only by an image request that wrote its file.
C8_StateMachine ==
    [][ pc # "start" =>
        /\ net' # net => (PageCall \/ ImageCall)
        /\ PageCall =>
              /\ pc = "loop"
              /\ blogs[i].url # <<>>
              /\ blogs[i].thumbnail # <<>>
              /\ ~DestinationExists
              /\ \A k \in 1..Len(net) : net[k].entry # i
        /\ ImageCall =>
              /\ pc = "resolved"
              /\ image_url # None
              /\ image_url # <<>>
              /\ net[Len(net)] = [kind |-> "page", entry |-> i]
        /\ (pc = "resolved" /\ (image_url = None \/ image_url = <<>>)) =>
              /\ failed' = failed + 1
              /\ downloaded' = downloaded
              /\ net' = net
              /\ i' = i + 1
        /\ downloaded' # downloaded =>
              /\ downloaded' = downloaded + 1
              /\ ImageCall
              /\ DestinationExists' ]_vars

\* A finished run with one entry that failed at resolution and one downloaded.
C8_Witness ==
    /\ pc = "done"
    /\ Count("not_found") = 1
    /\ Count("downloaded") = 1

\* C9: a failure of the resolver or of the fetcher leaves main() in its loop
\* with the entry counted failed; the index only ever advances by one, each
\* advance with one more outcome line; and a run that entered the loop
\* reaches the summary, with one outcome line per entry.
C9_NeverFatal ==
    /\ [][ pc = "resolved" =>
             /\ pc' \in {"loop", "pause"}
             /\ Len(log') = Len(log) + 1
             /\ log'[Len(log')] \in {"not_found", "download_failed"}
                   => (failed' = failed + 1 /\ downloaded' = downloaded)
             /\ (image_url = None \/ image_url = <<>>)
                   => log'[Len(log')] = "not_found" ]_vars
    /\ [][ (pc # "start" /\ i' # i) => (i' = i + 1 /\ Len(log') = i) ]_vars
    /\ [](pc = "done" => Len(log) = Len(blogs))
    /\ (pc \in {"loop", "resolved", "pause"}) ~> (pc = "done")

\* A finished run whose first entry failed and whose second was downloaded.
C9_Witness ==
    /\ pc = "done"
    /\ Len(log) = 2
    /\ log[1] \in {"not_found", "download_failed"}
    /\ log[2] = "downloaded"

\* C10 (as claimed): a file of the assets folder existed before the run or is
\* the destination of an entry that was counted downloaded.
C10_NoFileOnFailure ==
    InRun =>
        \A f \in files :
            \/ f \in files0
            \/ \E k \in 1..Len(log) : log[k] = "downloaded" /\ SavePath(blogs[k]) = f

----------------------------------------------------------------------------
(* Properties of the resolver *)

\* The candidate of each rule as the resolution order states it, None when the
\* rule has none.
RuleCandidate(p, rule) ==
    CASE rule = 1 -> IF p.og # None /\ p.og # <<>> THEN p.og ELSE None
      [] rule = 2 -> IF p.tw # None /\ p.tw # <<>> THEN p.tw ELSE None
      [] rule = 3 -> IF p.ld.kind \in {"str", "urlobj"} THEN p.ld.val ELSE None
      [] rule = 4 -> IF LargeImgs(p.imgs) # {}
                     THEN p.imgs[Min(LargeImgs(p.imgs))] ELSE None
      [] rule = 5 -> IF CdnImgs(p.imgs) # {}
                     THEN p.imgs[Min(CdnImgs(p.imgs))] ELSE None

RulesWithCandidate(p) == {r \in 1..5 : RuleCandidate(p, r) # None}

\* C5 (as claimed): the result is the normalized candidate of the first rule
\* that has one, and None when no rule has one.
C5_Priority ==
    (pc = "returned" /\ page.status = "ok") =>
        IF RulesWithCandidate(page) = {}
        THEN image_url = None
        ELSE image_url = Normalize(RuleCandidate(page, Min(RulesWithCandidate(page))))

HasResizeSegment(s) ==
    \E k \in 1..Len(s) :
        k + 2 <= Len(s) /\ s[k] = "/" /\ s[k + 1] = "resize:" /\ s[k + 2] # "/"

\* C6 (as claimed): a returned URL holds no "?" and no resize segment, and
\* normalizing it again changes nothing.
C6_Normalized ==
    (pc = "returned" /\ image_url # None) =>
        /\ "?" \notin Range(image_url)
        /\ ~HasResizeSegment(image_url)
        /\ Normalize(image_url) = image_url

\* The CDN images whose src, as written in the page, holds a size marker.
RawLargeImgs(imgs) == {k \in CdnImgs(imgs) : HasLargeSize(imgs[k])}

\* C7 (as claimed): on a page without Open Graph, Twitter or structured-data
\* image, the first CDN image whose src holds a size marker is returned.
C7_LargeFirst ==
    ( /\ pc = "returned"
      /\ page.status = "ok"
      /\ page.og \in {None, <<>>}
      /\ page.tw \in {None, <<>>}
      /\ page.ld.kind \in {"absent", "badjson", "notdict", "noimage"}
      /\ RawLargeImgs(page.imgs) # {} )
    => image_url = Normalize(page.imgs[Min(RawLargeImgs(page.imgs))])

=============================================================================
